---- MODULE Spec2Model ----
(***************************************************************************)
(* Leave / permission request ledger of MMKPermisstionDI.                  *)
(*                                                                         *)
(* The record store is a spreadsheet: one sheet per leave category, one    *)
(* row per request, 21 columns per row.  Two programs work on the same     *)
(* spreadsheet: the Apps Script back end (src/code.js, "gas") and the      *)
(* Node/Express port (src/unnamed/part_000, "node").  A cell holds text;   *)
(* the empty cell is "".  A row of a sheet is addressed by its position    *)
(* among the data rows (the header row is not modelled).                   *)
(***************************************************************************)
EXTENDS Integers, Sequences, FiniteSets, Bags, TLC

\* ---------------------------------------------------------------- bounds
MaxTime == 2
MaxRows == 2
MaxCalls == 4

\* ------------------------------------------------------------- constants
TIMESTAMP_COL == 1
REQUEST_ID_COL == 2
EMPLOYEE_ID_COL == 3
EMPLOYEE_NAME_COL == 4
LEAVE_TYPE_COL == 5
START_DATE_COL == 6
END_DATE_COL == 7
DAYS_COL == 8
REASON_COL == 9
STATUS_COL == 10
APPROVER_COL == 11
SELFIE_PHOTO_COL == 12
APPROVAL_TIMESTAMP_COL == 13
DOC_PHOTO_COL == 14
LOCATION_LINK_COL == 15
CHECKIN_TIMESTAMP_COL == 16
CHECKIN_PHOTO_COL == 17
CHECKIN_LOCATION_LINK_COL == 18
NOTIFICATION_SENT_COL == 19
PAYMENT_RECEIPT_COL == 20
ADMIN_CHECKIN_NOTE_COL == 21

PERMISSION_SHEET_NAME == "Permission"
LEAVE_SHEET_NAME == "Leave"
HOME_LEAVE_SHEET_NAME == "HomeLeave"
ALL_LEAVE_SHEETS == <<PERMISSION_SHEET_NAME, LEAVE_SHEET_NAME, HOME_LEAVE_SHEET_NAME>>
SheetNames == {ALL_LEAVE_SHEETS[i] : i \in 1..Len(ALL_LEAVE_SHEETS)}

DEFAULT_ADMIN_NAME == "Admin"

\* The two programs that share the spreadsheet.
Impls == {"gas", "node"}

\* --------------------------------------------------------- input domains
Times == 1..MaxTime
Employees == {"E1"}
Actors == {"", "Boss"}
\* What a decide is called with: the new status and the rejection reason.
Decisions == {<<"Approved", "">>, <<"Rejected", "late">>, <<"Cancelled", "">>}
\* The decisions the Telegram webhook of the Node port passes on.
NodeDecisions == {<<"Approved", "">>, <<"Rejected", "late">>}
\* The id the blob store gives an uploaded file; where the id plays no part
\* one id stands for all, where two uploads are compared there are two.
DriveOutcomes == {"f1"}
FreshFiles == {"f1", "f2"}

VARIABLES
  sheets,   \* sheet name -> sequence of rows; a row is a 21-tuple of cells
  now,      \* the clock: the current instant of the time line
  cache,    \* program -> whether its employee map is in its cache
  last,     \* what the last handler returned and sent
  calls,    \* how many handler calls the behaviour has made
  dec,      \* caller -> the decide call it is in the middle of
  sent,     \* the bag of <<Permission row, tier>> escalation notifications sent
  telegram  \* how the send of the last handler's notification ended

vars == <<sheets, now, cache, last, calls, dec, sent, telegram>>

\* ------------------------------------------------------- cell conversions
\* new Date() stored in a cell, and `REQ-${timestamp.getTime()}`.
TimeCell(t) == ToString(t)
RequestIdAt(t) == "REQ-" \o ToString(t)
RequestIds == {RequestIdAt(t) : t \in Times}

\* --------------------------------------------------------- store access
\* getRange(row, col).getValue(); a row below the last row of data is blank.
GetValue(sh, sheet, row, col) ==
  IF row <= Len(sh[sheet]) THEN sh[sheet][row][col] ELSE ""

\* getRange(row, col).setValue(v); clearContent() is setValue("").  A write
\* below the last row of data turns the blank rows down to it into data.
SetValue(sh, sheet, row, col, v) ==
  IF row <= Len(sh[sheet]) THEN [sh EXCEPT ![sheet][row][col] = v]
  ELSE LET blank == [c \in 1..ADMIN_CHECKIN_NOTE_COL |-> ""]
           added == row - Len(sh[sheet])
       IN [sh EXCEPT ![sheet] =
             @ \o [i \in 1..added |->
                     IF i = added THEN [blank EXCEPT ![col] = v] ELSE blank]]

TotalRows(sh) == Len(sh[PERMISSION_SHEET_NAME]) + Len(sh[LEAVE_SHEET_NAME])
                   + Len(sh[HOME_LEAVE_SHEET_NAME])

NotFound == [sheet |-> "", row |-> 0]

\* As FindIndex, but a miss falls back to the last row of the sheet.
FindIndexOrLast(sh, sheet, requestId) ==
  LET hits == {i \in 1..Len(sh[sheet]) : sh[sheet][i][REQUEST_ID_COL] = requestId}
  IN IF hits = {} THEN Len(sh[sheet]) ELSE CHOOSE i \in hits : \A j \in hits : i <= j

\* The first row of `sheet` whose request id cell equals requestId, 0 if none.
FindIndex(sh, sheet, requestId) ==
  LET hits == {i \in 1..Len(sh[sheet]) : sh[sheet][i][REQUEST_ID_COL] = requestId}
  IN IF hits = {} THEN 0 ELSE CHOOSE i \in hits : \A j \in hits : i <= j

RECURSIVE FindFrom(_, _, _)
FindFrom(sh, requestId, k) ==
  IF k > Len(ALL_LEAVE_SHEETS) THEN NotFound
  ELSE LET rowIndex == FindIndex(sh, ALL_LEAVE_SHEETS[k], requestId)
       IN IF rowIndex # 0 THEN [sheet |-> ALL_LEAVE_SHEETS[k], row |-> rowIndex]
          ELSE FindFrom(sh, requestId, k + 1)

findRequestRow(sh, requestId) == FindFrom(sh, requestId, 1)

\* ------------------------------------------------------------- results
\* What a handler call returned (status, message), the notification it sent,
\* and, for the record, the arguments of a call that wrote and the status the
\* located row had when the call began.
ResultOn(op, id, status, message, notif, args, before) ==
  [op |-> op, requestId |-> id, status |-> status, message |-> message,
   notif |-> notif, args |-> args, before |-> before]

Result(op, id, status, message, notif) ==
  ResultOn(op, id, status, message, notif, <<>>, "")

NoResult == Result("none", "", "", "", "none")

MSG_REQUIRED == "Request ID and new status are required."
MSG_PROCESSED == "This request has already been processed."
MSG_NOT_FOUND_UPDATE == "Request ID not found for status update."
MSG_NOT_FOUND_NODE == "Request ID not found."
MSG_UPDATED == "status updated."

MSG_INVALID_DETAILS == "Invalid leave details provided."
MSG_DELETED == "deleted."
MSG_NOT_FOUND_DELETE == "Request ID not found for deletion."
MSG_ID_REQUIRED == "Request ID is required."
MSG_NOT_FOUND_RESUBMIT == "Request not found."
MSG_INVALID_CHECKIN == "Invalid check-in data."
MSG_LOCATION_MISSING == "Check-in failed: Location data is missing."
MSG_TOO_FAR == "Check-in failed: too far from the target location."
MSG_CHECKED_IN == "Check-in successful."
MSG_NOT_FOUND_CHECKIN == "Request not found for check-in."
MSG_ADMIN_REQUIRED == "Request ID and Admin Role are required."
MSG_ADMIN_CHECKED_IN == "Admin check-in successful."
MSG_NOT_FOUND_ADMIN_CHECKIN == "Request not found for admin check-in."

\* -------------------------------------------------------------- helpers
isBase64Image(str) == str \in {"data:image/selfie", "data:image/doc"}

\* folder.createFile makes a new file on every call, whatever its name, and
\* file.getUrl() is the URL of that file: `created` is the id the store gave
\* the new file.  When the upload fails the helper returns null, which a cell
\* stores as the empty cell.
saveImageToDrive(base64Data, fileName, created) ==
  IF created = "" THEN "" ELSE "drive://" \o created

\* The marks the scanner writes into NOTIFICATION_SENT_COL, one per tier.
Tiers == {"OverdueHalfDay_1", "OverdueHalfDay_2", "OverdueTime", "OverdueDay"}

\* Two administrators may press approve / reject at nearly the same time.
Callers == {1, 2}
Idle == [pc |-> "idle", requestId |-> "", newStatus |-> "", approverRole |-> "",
         rejectionReason |-> "", found |-> NotFound, result |-> ""]

Init ==
  /\ sheets = [s \in SheetNames |-> <<>>]
  /\ now = 1
  /\ cache = [i \in Impls |-> FALSE]
  /\ last = NoResult
  /\ calls = 0
  /\ dec = [c \in Callers |-> Idle]
  /\ sent = EmptyBag
  /\ telegram = "none"

\* Time passes between two handlers.
Tick ==
  /\ now < MaxTime
  /\ now' = now + 1
  /\ last' = NoResult
  /\ UNCHANGED <<sheets, cache, calls, dec, sent, telegram>>

\* ------------------------------------------------------------ submission
StartDates == {"D1"}
DayValues == {"1"}
SelfieInputs == {"data:image/selfie"}
SubmitTypes == {PERMISSION_SHEET_NAME, LEAVE_SHEET_NAME}

LeaveDetails ==
  [employeeId : Employees, employeeName : {"N1"},
   leaveType : SubmitTypes, startDate : StartDates, endDate : StartDates,
   numberOfDays : DayValues, reason : {"r1"}, selfieImageData : SelfieInputs]

\* The row appendRow receives: 21 cells in column order.
NewRow(timestamp, requestId, d, selfieUrl) ==
  << TimeCell(timestamp), requestId, d.employeeId, d.employeeName, d.leaveType,
     d.startDate, d.endDate, d.numberOfDays, d.reason, "Pending", "",
     selfieUrl, "", "", "", "", "", "", "", "", "" >>

submitLeaveRequest(leaveDetails, created) ==
  /\ TotalRows(sheets) < MaxRows
  /\ IF leaveDetails.leaveType = "" \/ leaveDetails.employeeId = ""
     THEN /\ last' = Result("submit", "", "error", MSG_INVALID_DETAILS, "none")
          /\ UNCHANGED <<sheets, now, cache>>
     ELSE LET requestId == RequestIdAt(now)
              selfieUrl ==
                IF isBase64Image(leaveDetails.selfieImageData)
                THEN saveImageToDrive(leaveDetails.selfieImageData,
                       "Selfie_" \o leaveDetails.employeeId \o "_" \o requestId, created)
                ELSE ""
          IN /\ sheets' = [sheets EXCEPT ![leaveDetails.leaveType] =
                             Append(@, NewRow(now, requestId, leaveDetails, selfieUrl))]
             /\ last' = Result("submit", requestId, "success", "", "new")
             /\ UNCHANGED <<now, cache>>

\* -------------------------------------------------------------- decide
\* As AlreadyProcessed, but only an Approved request counts as processed.
AlreadyProcessedOnlyApproved(currentStatus) == currentStatus = "Approved"

\* The compare of the check-then-act: the request is no longer Pending.
AlreadyProcessed(currentStatus) == currentStatus # "Pending"

ApproverDisplayName(approverRole) ==
  IF approverRole = "" THEN DEFAULT_ADMIN_NAME ELSE approverRole

\* The cell writes of a decide that found the request Pending.
DecideWrites(sh, found, newStatus, approverRole, rejectionReason, t) ==
  LET s1 == SetValue(sh, found.sheet, found.row, STATUS_COL, newStatus)
      s2 == SetValue(s1, found.sheet, found.row, APPROVER_COL,
                     ApproverDisplayName(approverRole))
      s3 == SetValue(s2, found.sheet, found.row, APPROVAL_TIMESTAMP_COL, TimeCell(t))
  IN IF newStatus = "Rejected" /\ rejectionReason # ""
     THEN SetValue(s3, found.sheet, found.row, ADMIN_CHECKIN_NOTE_COL, rejectionReason)
     ELSE s3

updateRequestStatus(requestId, newStatus, approverRole, rejectionReason) ==
  LET found == findRequestRow(sheets, requestId)
  IN IF requestId = "" \/ newStatus = ""
     THEN /\ last' = Result("decide", requestId, "error", MSG_REQUIRED, "none")
          /\ UNCHANGED <<sheets, now, cache>>
     ELSE IF found # NotFound
     THEN IF AlreadyProcessed(GetValue(sheets, found.sheet, found.row, STATUS_COL))
          THEN /\ last' = Result("decide", requestId, "error", MSG_PROCESSED, "none")
               /\ UNCHANGED <<sheets, now, cache>>
          ELSE /\ sheets' = DecideWrites(sheets, found, newStatus, approverRole,
                                         rejectionReason, now)
               /\ cache' = [cache EXCEPT !["gas"] = FALSE]
               /\ last' = ResultOn("decide", requestId, "success", MSG_UPDATED, "decided",
                                   <<newStatus, approverRole, rejectionReason>>,
                                   GetValue(sheets, found.sheet, found.row, STATUS_COL))
               /\ UNCHANGED now
     ELSE /\ last' = Result("decide", requestId, "error", MSG_NOT_FOUND_UPDATE, "none")
          /\ UNCHANGED <<sheets, now, cache>>

\* The Node port.  values.update writes the given values into consecutive
\* cells of the row, starting at the column the range names.
COLUMN_J == 10
COLUMN_U == 21

UpdateRange(sh, sheet, row, col, values) ==
  [sh EXCEPT ![sheet][row] =
     [c \in 1..Len(@) |->
        IF c >= col /\ c < col + Len(values) THEN values[c - col + 1] ELSE @[c]]]

\* As NodeAlreadyProcessed, but only the empty cell is tested.
NodeAlreadyProcessedNoCheck(currentStatus) == currentStatus # "" /\ FALSE

\* currentStatusRes.data.values is absent for an empty cell.
NodeAlreadyProcessed(currentStatus) == currentStatus # "" /\ currentStatus # "Pending"

NodeDecideWrites(sh, found, newStatus, approverRole, rejectionReason, t) ==
  LET values == IF newStatus = "Rejected"
                THEN <<newStatus, approverRole, TimeCell(t), rejectionReason>>
                ELSE <<newStatus, approverRole, TimeCell(t)>>
      s1 == UpdateRange(sh, found.sheet, found.row, COLUMN_J, values)
  IN IF newStatus = "Rejected" /\ rejectionReason # ""
     THEN UpdateRange(s1, found.sheet, found.row, COLUMN_U, <<rejectionReason>>)
     ELSE s1

nodeUpdateRequestStatus(requestId, newStatus, approverRole, rejectionReason) ==
  LET found == findRequestRow(sheets, requestId)
  IN IF requestId = "" \/ newStatus = ""
     THEN /\ last' = Result("decide", requestId, "error", MSG_REQUIRED, "none")
          /\ UNCHANGED <<sheets, now, cache>>
     ELSE IF found # NotFound
     THEN IF NodeAlreadyProcessed(GetValue(sheets, found.sheet, found.row, STATUS_COL))
          THEN /\ last' = Result("decide", requestId, "error", MSG_PROCESSED, "none")
               /\ UNCHANGED <<sheets, now, cache>>
          ELSE /\ sheets' = NodeDecideWrites(sheets, found, newStatus, approverRole,
                                             rejectionReason, now)
               /\ cache' = [cache EXCEPT !["node"] = FALSE]
               /\ last' = ResultOn("decide", requestId, "success", "", "decided",
                                   <<newStatus, approverRole, rejectionReason>>,
                                   GetValue(sheets, found.sheet, found.row, STATUS_COL))
               /\ UNCHANGED now
     ELSE /\ last' = Result("decide", requestId, "error", MSG_NOT_FOUND_NODE, "none")
          /\ UNCHANGED <<sheets, now, cache>>

\* --------------------------------------------------------------- delete
RemoveAt(seq, i) == SubSeq(seq, 1, i - 1) \o SubSeq(seq, i + 1, Len(seq))

deleteLeaveRequest(requestId) ==
  LET found == findRequestRow(sheets, requestId)
  IN IF requestId = ""
     THEN /\ last' = Result("delete", requestId, "error", MSG_ID_REQUIRED, "none")
          /\ UNCHANGED <<sheets, now, cache>>
     ELSE IF found # NotFound
     THEN /\ sheets' = [sheets EXCEPT ![found.sheet] = RemoveAt(@, found.row)]
          /\ cache' = [cache EXCEPT !["gas"] = FALSE]
          /\ last' = Result("delete", requestId, "success", MSG_DELETED, "none")
          /\ UNCHANGED now
     ELSE /\ last' = Result("delete", requestId, "error", MSG_NOT_FOUND_DELETE, "none")
          /\ UNCHANGED <<sheets, now, cache>>

\* ------------------------------------------------------------- resubmit
UpdateDetails ==
  [requestId : RequestIds, employeeId : Employees, employeeName : {"N1"},
   leaveType : SubmitTypes, startDate : StartDates, endDate : StartDates,
   numberOfDays : DayValues, reason : {"r1"}, selfieImageData : SelfieInputs]

\* As ResubmitWrites, but the admin note column is left as it is.
ResubmitWritesKeepNote(sh, found, details, selfieUrl, documentUrlsJson) ==
  LET w(s, col, v) == SetValue(s, found.sheet, found.row, col, v)
      s1 == w(sh, LEAVE_TYPE_COL, details.leaveType)
      s2 == w(s1, START_DATE_COL, details.startDate)
      s3 == w(s2, END_DATE_COL, details.endDate)
      s4 == w(s3, DAYS_COL, details.numberOfDays)
      s5 == w(s4, REASON_COL, details.reason)
      s6 == w(s5, SELFIE_PHOTO_COL, selfieUrl)
      s7 == w(s6, DOC_PHOTO_COL, documentUrlsJson)
      s8 == w(s7, STATUS_COL, "Pending")
      s9 == w(s8, APPROVER_COL, "")
  IN w(s9, APPROVAL_TIMESTAMP_COL, "")

\* As ResubmitWrites, but the escalation mark is cleared with the rest.
ResubmitWritesClearMark(sh, found, details, selfieUrl, documentUrlsJson) ==
  LET w(s, col, v) == SetValue(s, found.sheet, found.row, col, v)
      s1 == w(sh, LEAVE_TYPE_COL, details.leaveType)
      s2 == w(s1, START_DATE_COL, details.startDate)
      s3 == w(s2, END_DATE_COL, details.endDate)
      s4 == w(s3, DAYS_COL, details.numberOfDays)
      s5 == w(s4, REASON_COL, details.reason)
      s6 == w(s5, SELFIE_PHOTO_COL, selfieUrl)
      s7 == w(s6, DOC_PHOTO_COL, documentUrlsJson)
      s8 == w(s7, STATUS_COL, "Pending")
      s9 == w(s8, APPROVER_COL, "")
      s10 == w(s9, APPROVAL_TIMESTAMP_COL, "")
      s11 == w(s10, NOTIFICATION_SENT_COL, "")
  IN w(s11, ADMIN_CHECKIN_NOTE_COL, "")

\* The cell writes of an edit-and-resubmit on the located row.
ResubmitWrites(sh, found, details, selfieUrl, documentUrlsJson) ==
  LET w(s, col, v) == SetValue(s, found.sheet, found.row, col, v)
      s1 == w(sh, LEAVE_TYPE_COL, details.leaveType)
      s2 == w(s1, START_DATE_COL, details.startDate)
      s3 == w(s2, END_DATE_COL, details.endDate)
      s4 == w(s3, DAYS_COL, details.numberOfDays)
      s5 == w(s4, REASON_COL, details.reason)
      s6 == w(s5, SELFIE_PHOTO_COL, selfieUrl)
      s7 == w(s6, DOC_PHOTO_COL, documentUrlsJson)
      s8 == w(s7, STATUS_COL, "Pending")
      s9 == w(s8, APPROVER_COL, "")
      s10 == w(s9, APPROVAL_TIMESTAMP_COL, "")
  IN w(s10, ADMIN_CHECKIN_NOTE_COL, "")

updateLeaveRequest(details, created) ==
  LET found == findRequestRow(sheets, details.requestId)
      selfieUrl ==
        IF isBase64Image(details.selfieImageData)
        THEN saveImageToDrive(details.selfieImageData,
               "Selfie_" \o details.employeeId \o "_" \o details.requestId \o "_updated", created)
        ELSE details.selfieImageData
  IN IF details.requestId = ""
     THEN /\ last' = Result("resubmit", details.requestId, "error",
                            MSG_ID_REQUIRED, "none")
          /\ UNCHANGED <<sheets, now, cache>>
     ELSE IF found = NotFound
     THEN /\ last' = Result("resubmit", details.requestId, "error",
                            MSG_NOT_FOUND_RESUBMIT, "none")
          /\ UNCHANGED <<sheets, now, cache>>
     ELSE /\ sheets' = ResubmitWrites(sheets, found, details, selfieUrl, "")
          /\ last' = ResultOn("resubmit", details.requestId, "success", "",
                              "resubmitted", <<details>>,
                              GetValue(sheets, found.sheet, found.row, STATUS_COL))
          /\ UNCHANGED <<now, cache>>

\* ------------------------------------------------------------- check-in
Locations == {"far", "near"}
CheckInData ==
  [requestId : RequestIds, selfieData : SelfieInputs, location : Locations]

LOCATION_LINK_NEAR == "https://maps.google.com/?q=near"
LOCATION_NA_ADMIN == "N/A (Admin)"

\* The cell writes of the employee's own check-in on the located row.
CheckInWrites(sh, found, t, photoUrl, locationLink) ==
  LET s1 == SetValue(sh, found.sheet, found.row, CHECKIN_TIMESTAMP_COL, TimeCell(t))
      s2 == SetValue(s1, found.sheet, found.row, CHECKIN_PHOTO_COL, photoUrl)
  IN SetValue(s2, found.sheet, found.row, CHECKIN_LOCATION_LINK_COL, locationLink)

submitCheckIn(checkInData, created) ==
  LET found == findRequestRow(sheets, checkInData.requestId)
  IN IF checkInData.requestId = "" \/ checkInData.selfieData = ""
     THEN /\ last' = Result("checkin", checkInData.requestId, "error",
                            MSG_INVALID_CHECKIN, "none")
          /\ UNCHANGED <<sheets, now, cache>>
     ELSE IF checkInData.location # "near"
     THEN /\ last' = Result("checkin", checkInData.requestId, "error",
                            IF checkInData.location = "far" THEN MSG_TOO_FAR
                            ELSE MSG_LOCATION_MISSING, "none")
          /\ UNCHANGED <<sheets, now, cache>>
     ELSE IF found # NotFound
     THEN LET employeeId == GetValue(sheets, found.sheet, found.row, EMPLOYEE_ID_COL)
              photoUrl == saveImageToDrive(checkInData.selfieData,
                            "CheckIn_" \o employeeId \o "_" \o checkInData.requestId, created)
          IN /\ sheets' = CheckInWrites(sheets, found, now, photoUrl, LOCATION_LINK_NEAR)
             /\ last' = Result("checkin", checkInData.requestId, "success",
                               MSG_CHECKED_IN, "checkin")
             /\ UNCHANGED <<now, cache>>
     ELSE /\ last' = Result("checkin", checkInData.requestId, "error",
                            MSG_NOT_FOUND_CHECKIN, "none")
          /\ UNCHANGED <<sheets, now, cache>>

\* As AdminCheckInWrites, but the annotation lands in the approver column.
AdminCheckInWritesApproverCol(sh, found, t, adminRole) ==
  LET s1 == SetValue(sh, found.sheet, found.row, CHECKIN_TIMESTAMP_COL, TimeCell(t))
      s2 == SetValue(s1, found.sheet, found.row, APPROVER_COL,
                     "Checked in by: " \o adminRole)
  IN SetValue(s2, found.sheet, found.row, CHECKIN_LOCATION_LINK_COL, LOCATION_NA_ADMIN)

\* The cell writes of an admin-assisted check-in on the located row.
AdminCheckInWrites(sh, found, t, adminRole) ==
  LET s1 == SetValue(sh, found.sheet, found.row, CHECKIN_TIMESTAMP_COL, TimeCell(t))
      s2 == SetValue(s1, found.sheet, found.row, ADMIN_CHECKIN_NOTE_COL,
                     "Checked in by: " \o adminRole)
  IN SetValue(s2, found.sheet, found.row, CHECKIN_LOCATION_LINK_COL, LOCATION_NA_ADMIN)

adminSubmitCheckIn(requestId, adminRole) ==
  LET found == findRequestRow(sheets, requestId)
  IN IF requestId = "" \/ adminRole = ""
     THEN /\ last' = Result("admincheckin", requestId, "error",
                            MSG_ADMIN_REQUIRED, "none")
          /\ UNCHANGED <<sheets, now, cache>>
     ELSE IF found # NotFound
     THEN /\ sheets' = AdminCheckInWrites(sheets, found, now, adminRole)
          /\ last' = Result("admincheckin", requestId, "success",
                            MSG_ADMIN_CHECKED_IN, "checkin-admin")
          /\ UNCHANGED <<now, cache>>
     ELSE /\ last' = Result("admincheckin", requestId, "error",
                            MSG_NOT_FOUND_ADMIN_CHECKIN, "none")
          /\ UNCHANGED <<sheets, now, cache>>

\* ------------------------------------------------------ employee directory
\* checkEmployeeId rebuilds the employee map into the cache when it is absent.
EmployeeDirectory == {"E1"}
MSG_ENTER_ID == "Employee ID is required."
MSG_BAD_ID == "Employee ID is not valid."

checkEmployeeId(impl, employeeId) ==
  IF employeeId = ""
  THEN /\ last' = Result("checkEmployeeId", "", "error", MSG_ENTER_ID, "none")
       /\ UNCHANGED <<sheets, now, cache>>
  ELSE /\ cache' = [cache EXCEPT ![impl] = TRUE]
       /\ last' = IF employeeId \in EmployeeDirectory
                  THEN Result("checkEmployeeId", "", "success", "", "none")
                  ELSE Result("checkEmployeeId", "", "error", MSG_BAD_ID, "none")
       /\ UNCHANGED <<sheets, now>>

\* ----------------------------------------------------------------- Spec
\* One more handler call, while the behaviour's budget of calls lasts.
Called == calls < MaxCalls /\ calls' = calls + 1 /\ UNCHANGED <<dec, sent, telegram>>

Submit == Called /\ \E d \in LeaveDetails, created \in DriveOutcomes : submitLeaveRequest(d, created)
Decide ==
  Called /\ \E id \in RequestIds, d \in Decisions, a \in Actors :
    updateRequestStatus(id, d[1], a, d[2])
NodeDecide ==
  Called /\ \E id \in RequestIds, d \in NodeDecisions, a \in Actors \ {""} :
    nodeUpdateRequestStatus(id, d[1], a, d[2])
Delete == Called /\ \E id \in RequestIds : deleteLeaveRequest(id)
Resubmit == Called /\ \E d \in UpdateDetails, created \in DriveOutcomes : updateLeaveRequest(d, created)
CheckIn == Called /\ \E c \in CheckInData, created \in DriveOutcomes : submitCheckIn(c, created)
AdminCheckIn == Called /\ \E id \in RequestIds, a \in Actors \ {""} : adminSubmitCheckIn(id, a)
CheckEmployee == Called /\ \E i \in Impls, e \in Employees : checkEmployeeId(i, e)

Next ==
  \/ Tick
  \/ Submit
  \/ Decide
  \/ NodeDecide
  \/ Delete
  \/ Resubmit
  \/ CheckIn
  \/ AdminCheckIn
  \/ CheckEmployee

Spec == Init /\ [][Next]_vars

\* ------------------------------------------------ resubmit with uploads
\* Edit-and-resubmit calls whose attachments are uploaded anew on each call.
ResubmitUpload ==
  Called /\ \E d \in UpdateDetails, created \in FreshFiles : updateLeaveRequest(d, created)

NextResubmit ==
  \/ Tick
  \/ Submit
  \/ Decide
  \/ ResubmitUpload

SpecResubmit == Init /\ [][NextResubmit]_vars

\* ------------------------------------------------- decide, step by step
\* updateRequestStatus of the Apps Script back end, one store call per step.
\* No lock is taken: the calls of two administrators interleave freely.
RaceDecisions == {<<"Approved", "">>, <<"Rejected", "late">>}

DecideLocate(c, requestId, newStatus, approverRole, rejectionReason) ==
  /\ dec[c].pc = "idle"
  /\ calls < MaxCalls
  /\ calls' = calls + 1
  /\ LET found == findRequestRow(sheets, requestId)
     IN dec' = [dec EXCEPT ![c] =
                  [pc |-> IF found = NotFound THEN "done" ELSE "located",
                   requestId |-> requestId, newStatus |-> newStatus,
                   approverRole |-> approverRole, rejectionReason |-> rejectionReason,
                   found |-> found,
                   result |-> IF found = NotFound THEN MSG_NOT_FOUND_UPDATE ELSE ""]]
  /\ UNCHANGED <<sheets, now, cache, last, sent, telegram>>

DecideReadStatus(c) ==
  /\ dec[c].pc = "located"
  /\ LET currentStatus == GetValue(sheets, dec[c].found.sheet, dec[c].found.row, STATUS_COL)
     IN dec' = IF AlreadyProcessed(currentStatus)
               THEN [dec EXCEPT ![c].pc = "done", ![c].result = MSG_PROCESSED]
               ELSE [dec EXCEPT ![c].pc = "checked"]
  /\ UNCHANGED <<sheets, now, cache, last, calls, sent, telegram>>

DecideWriteStatus(c) ==
  /\ dec[c].pc = "checked"
  /\ sheets' = SetValue(sheets, dec[c].found.sheet, dec[c].found.row, STATUS_COL,
                        dec[c].newStatus)
  /\ dec' = [dec EXCEPT ![c].pc = "wroteStatus"]
  /\ UNCHANGED <<now, cache, last, calls, sent, telegram>>

DecideWriteApprover(c) ==
  /\ dec[c].pc = "wroteStatus"
  /\ sheets' = SetValue(sheets, dec[c].found.sheet, dec[c].found.row, APPROVER_COL,
                        ApproverDisplayName(dec[c].approverRole))
  /\ dec' = [dec EXCEPT ![c].pc = "wroteApprover"]
  /\ UNCHANGED <<now, cache, last, calls, sent, telegram>>

DecideWriteTimestamp(c) ==
  /\ dec[c].pc = "wroteApprover"
  /\ sheets' = SetValue(sheets, dec[c].found.sheet, dec[c].found.row,
                        APPROVAL_TIMESTAMP_COL, TimeCell(now))
  /\ dec' = [dec EXCEPT ![c].pc = "wroteTimestamp"]
  /\ UNCHANGED <<now, cache, last, calls, sent, telegram>>

\* The rejection reason, the cache invalidation, the notification, the return.
DecideFinish(c) ==
  /\ dec[c].pc = "wroteTimestamp"
  /\ sheets' = IF dec[c].newStatus = "Rejected" /\ dec[c].rejectionReason # ""
               THEN SetValue(sheets, dec[c].found.sheet, dec[c].found.row,
                             ADMIN_CHECKIN_NOTE_COL, dec[c].rejectionReason)
               ELSE sheets
  /\ cache' = [cache EXCEPT !["gas"] = FALSE]
  /\ last' = ResultOn("decide", dec[c].requestId, "success", MSG_UPDATED, "decided",
                      <<dec[c].newStatus, dec[c].approverRole, dec[c].rejectionReason>>,
                      "Pending")
  /\ dec' = [dec EXCEPT ![c].pc = "done", ![c].result = MSG_UPDATED]
  /\ UNCHANGED <<now, calls, sent, telegram>>

RaceLocate ==
  \E c \in Callers, id \in RequestIds, d \in RaceDecisions :
    DecideLocate(c, id, d[1], "Boss", d[2])
RaceReadStatus == \E c \in Callers : DecideReadStatus(c)
RaceWriteStatus == \E c \in Callers : DecideWriteStatus(c)
RaceWriteApprover == \E c \in Callers : DecideWriteApprover(c)
RaceWriteTimestamp == \E c \in Callers : DecideWriteTimestamp(c)
RaceFinish == \E c \in Callers : DecideFinish(c)

NextRace ==
  \/ Tick
  \/ Submit
  \/ RaceLocate
  \/ RaceReadStatus
  \/ RaceWriteStatus
  \/ RaceWriteApprover
  \/ RaceWriteTimestamp
  \/ RaceFinish

SpecRace == Init /\ [][NextRace]_vars

\* The same calls, with deleteLeaveRequest calls running between their steps.
NextRaceDelete ==
  \/ NextRace
  \/ Delete

SpecRaceDelete == Init /\ [][NextRaceDelete]_vars

\* The same calls, with updateLeaveRequest calls running between their steps.
NextRaceResubmit ==
  \/ NextRace
  \/ Resubmit

SpecRaceResubmit == Init /\ [][NextRaceResubmit]_vars

MSG_FAILED_UPDATE == "Failed to update status"

\* A store call of updateRequestStatus throws (the spreadsheet service is
\* remote): the call that was to run next does nothing, the catch logs the
\* exception and returns an error result.
DecideThrows(c) ==
  /\ dec[c].pc \in {"located", "checked", "wroteStatus", "wroteApprover", "wroteTimestamp"}
  /\ dec' = [dec EXCEPT ![c].pc = "done", ![c].result = MSG_FAILED_UPDATE]
  /\ last' = Result("decide", dec[c].requestId, "error", MSG_FAILED_UPDATE, "none")
  /\ UNCHANGED <<sheets, now, cache, calls, sent, telegram>>

RaceThrows == \E c \in Callers : DecideThrows(c)

NextRaceThrows ==
  \/ NextRace
  \/ RaceThrows

SpecRaceThrows == Init /\ [][NextRaceThrows]_vars

\* ---------------------------------------------------- escalation scanner
\* checkForOverdueCheckIns, run by a time trigger on the Permission sheet.
\* The time line of a scan is counted in instants from the midnight of the
\* start date; the deadlines are the instants the code derives from it.
ScanMaxTime == 8
MaxSent == 2

\* Instants of the scanner's time line: 0 is 00:00 of day D1, the instants
\* below are the deadlines of a day, counted from its 00:00; day D2 is the
\* day after D1, its 00:00 lies between 18:00 and 05:00.
NEXT_DAY_0000 == 6
DayStart(startDate) == IF startDate = "D2" THEN NEXT_DAY_0000 ELSE 0
MORNING_0831 == 2
CHECKIN_1130 == 3
CHECKIN_1430 == 4
EVENING_1800 == 5
NEXT_DAY_0500 == 7
morningApprovalDeadline(startDate) == DayStart(startDate) + MORNING_0831
checkinDeadline1130(startDate) == DayStart(startDate) + CHECKIN_1130
checkinDeadline1430(startDate) == DayStart(startDate) + CHECKIN_1430
overdueTimeDeadline(startDate) == DayStart(startDate) + EVENING_1800
overdueDayDeadline(startDate) == DayStart(startDate) + NEXT_DAY_0500

\* Durations are counted in half days: parseFloat("0.5") is one half day.
HALF_DAY == 1

\* The three Khmer day-part names the form offers for a half day (one
\* morning, one afternoon, night time), written here in Latin letters.
dayValueMap ==
  [token \in {"muoy proek", "muoy rosiel", "pel yub"} |-> HALF_DAY]

\* parseFloat(str): the number the longest numeric prefix of the string
\* denotes, after leading white space, as <<number>>; <<>> is NaN.
parseFloat(str) ==
  IF str \in {"0.5", " 0.5", "0.5 day"} THEN <<HALF_DAY>>
  ELSE IF str \in {"1", "1 day", "1.0"} THEN <<2 * HALF_DAY>>
  ELSE IF str \in {"2", "2 days"} THEN <<4 * HALF_DAY>>
  ELSE IF str = "0" THEN <<0>>
  ELSE <<>>
isNaN(numericValue) == numericValue = <<>>

\* As getNumericDayValue, but the day-part names are not looked up.
getNumericDayValueNoMap(dayValue) ==
  LET numericValue == parseFloat(dayValue)
  IN IF isNaN(numericValue) THEN 0 ELSE numericValue[1]

getNumericDayValue(dayValue) ==
  IF dayValue \in DOMAIN dayValueMap THEN dayValueMap[dayValue]
  ELSE LET numericValue == parseFloat(dayValue)
       IN IF isNaN(numericValue) THEN 0 ELSE numericValue[1]

\* new Date(cell): the instant a timestamp cell holds, -1 for an invalid date.
ParseTime(cell) ==
  IF \E t \in 0..ScanMaxTime : ToString(t) = cell
  THEN CHOOSE t \in 0..ScanMaxTime : ToString(t) = cell
  ELSE -1

\* As ApprovedBefore, but an approval at the deadline itself counts.
ApprovedBeforeOrAt(cell, deadline) ==
  cell # "" /\ ParseTime(cell) >= 0 /\ ParseTime(cell) <= deadline

\* approvalTimestamp && approvalTimestamp < deadline
ApprovedBefore(cell, deadline) ==
  cell # "" /\ ParseTime(cell) >= 0 /\ ParseTime(cell) < deadline

\* As newNotificationStatus, but a row of any status is looked at.
newNotificationStatusAnyStatus(row, t) ==
  LET status == row[STATUS_COL]
      checkInTimestamp == row[CHECKIN_TIMESTAMP_COL]
      notificationSent == row[NOTIFICATION_SENT_COL]
      numericDays == getNumericDayValue(row[DAYS_COL])
      startDate == row[START_DATE_COL]
  IN IF checkInTimestamp # "" THEN ""
     ELSE IF numericDays = HALF_DAY
     THEN IF ApprovedBefore(row[APPROVAL_TIMESTAMP_COL], morningApprovalDeadline(startDate))
          THEN IF t > checkinDeadline1430(startDate) /\ notificationSent = "OverdueHalfDay_1"
               THEN "OverdueHalfDay_2"
               ELSE IF t > checkinDeadline1130(startDate) /\ notificationSent = ""
               THEN "OverdueHalfDay_1"
               ELSE ""
          ELSE ""
     ELSE IF t > overdueDayDeadline(startDate) /\ notificationSent # "OverdueDay"
          THEN "OverdueDay"
          ELSE IF /\ t > overdueTimeDeadline(startDate)
                  /\ t < overdueDayDeadline(startDate)
                  /\ notificationSent = ""
          THEN "OverdueTime"
          ELSE ""

\* As newNotificationStatus, but the 18:00 rule does not test the mark.
newNotificationStatusNoMarkTest(row, t) ==
  LET status == row[STATUS_COL]
      checkInTimestamp == row[CHECKIN_TIMESTAMP_COL]
      notificationSent == row[NOTIFICATION_SENT_COL]
      numericDays == getNumericDayValue(row[DAYS_COL])
      startDate == row[START_DATE_COL]
  IN IF checkInTimestamp # "" \/ status # "Approved" THEN ""
     ELSE IF numericDays = HALF_DAY
     THEN IF ApprovedBefore(row[APPROVAL_TIMESTAMP_COL], morningApprovalDeadline(startDate))
          THEN IF t > checkinDeadline1430(startDate) /\ notificationSent = "OverdueHalfDay_1"
               THEN "OverdueHalfDay_2"
               ELSE IF t > checkinDeadline1130(startDate) /\ notificationSent = ""
               THEN "OverdueHalfDay_1"
               ELSE ""
          ELSE ""
     ELSE IF t > overdueDayDeadline(startDate) /\ notificationSent # "OverdueDay"
          THEN "OverdueDay"
          ELSE IF /\ t > overdueTimeDeadline(startDate)
                  /\ t < overdueDayDeadline(startDate)
          THEN "OverdueTime"
          ELSE ""

\* As newNotificationStatus, but the 14:30 rule accepts any mark.
newNotificationStatusAnyMark(row, t) ==
  LET status == row[STATUS_COL]
      checkInTimestamp == row[CHECKIN_TIMESTAMP_COL]
      notificationSent == row[NOTIFICATION_SENT_COL]
      numericDays == getNumericDayValue(row[DAYS_COL])
      startDate == row[START_DATE_COL]
  IN IF checkInTimestamp # "" \/ status # "Approved" THEN ""
     ELSE IF numericDays = HALF_DAY
     THEN IF ApprovedBefore(row[APPROVAL_TIMESTAMP_COL], morningApprovalDeadline(startDate))
          THEN IF t > checkinDeadline1430(startDate) /\ notificationSent # ""
               THEN "OverdueHalfDay_2"
               ELSE IF t > checkinDeadline1130(startDate) /\ notificationSent = ""
               THEN "OverdueHalfDay_1"
               ELSE ""
          ELSE ""
     ELSE IF t > overdueDayDeadline(startDate) /\ notificationSent # "OverdueDay"
          THEN "OverdueDay"
          ELSE IF /\ t > overdueTimeDeadline(startDate)
                  /\ t < overdueDayDeadline(startDate)
                  /\ notificationSent = ""
          THEN "OverdueTime"
          ELSE ""

\* The tier the scan at instant t sends for this row, "" when it sends none.
newNotificationStatus(row, t) ==
  LET status == row[STATUS_COL]
      checkInTimestamp == row[CHECKIN_TIMESTAMP_COL]
      notificationSent == row[NOTIFICATION_SENT_COL]
      numericDays == getNumericDayValue(row[DAYS_COL])
      startDate == row[START_DATE_COL]
  IN IF checkInTimestamp # "" \/ status # "Approved" THEN ""
     ELSE IF numericDays = HALF_DAY
     THEN IF ApprovedBefore(row[APPROVAL_TIMESTAMP_COL], morningApprovalDeadline(startDate))
          THEN IF t > checkinDeadline1430(startDate) /\ notificationSent = "OverdueHalfDay_1"
               THEN "OverdueHalfDay_2"
               ELSE IF t > checkinDeadline1130(startDate) /\ notificationSent = ""
               THEN "OverdueHalfDay_1"
               ELSE ""
          ELSE ""
     ELSE IF t > overdueDayDeadline(startDate) /\ notificationSent # "OverdueDay"
          THEN "OverdueDay"
          ELSE IF /\ t > overdueTimeDeadline(startDate)
                  /\ t < overdueDayDeadline(startDate)
                  /\ notificationSent = ""
          THEN "OverdueTime"
          ELSE ""

\* sendTelegramNotification for tier k[2] of row k[1]; the count of what was
\* sent for one row and tier is kept up to MaxSent.
Notify(snt, k) ==
  IF CopiesIn(k, snt) < MaxSent THEN snt (+) SetToBag({k}) ELSE snt

\* The loop over the rows, from row i on.  For a row that is due the
\* notification is sent first and the mark written second; the write on row
\* failRow throws (or the run is killed there), which ends the loop: the one
\* try / catch encloses the whole loop.
RECURSIVE ScanRows(_, _, _, _, _)
ScanRows(rows, snt, i, failRow, t) ==
  IF i > Len(rows) THEN [rows |-> rows, sent |-> snt, failed |-> FALSE]
  ELSE LET tier == newNotificationStatus(rows[i], t)
           notified == Notify(snt, <<i, tier>>)
       IN IF tier = "" THEN ScanRows(rows, snt, i + 1, failRow, t)
          ELSE IF i = failRow THEN [rows |-> rows, sent |-> notified, failed |-> TRUE]
          ELSE ScanRows([rows EXCEPT ![i][NOTIFICATION_SENT_COL] = tier],
                        notified, i + 1, failRow, t)

MSG_NO_REQUESTS == "No permission requests to check."

\* As ScanResult, but the catch only logs the failure.
ScanResultLogged(failed, failRow) ==
  IF failed THEN ResultOn("scan", "", "error", "", "none", <<failRow>>, "")
  ELSE Result("scan", "", "success", "", "none")

\* How a run ends: when a store call threw, the catch around the run logs the
\* error and sends the one message that reports it.
ScanResult(failed, failRow) ==
  IF failed THEN ResultOn("scan", "", "error", "", "scan-error", <<failRow>>, "")
  ELSE Result("scan", "", "success", "", "none")

checkForOverdueCheckIns(failRow) ==
  LET rows == sheets[PERMISSION_SHEET_NAME]
      run == ScanRows(rows, sent, 1, failRow, now)
  IN /\ cache' = [cache EXCEPT !["gas"] = TRUE]
     /\ IF Len(rows) = 0
        THEN /\ last' = Result("scan", "", "success", MSG_NO_REQUESTS, "none")
             /\ UNCHANGED <<sheets, sent>>
        ELSE /\ sheets' = [sheets EXCEPT ![PERMISSION_SHEET_NAME] = run.rows]
             /\ sent' = run.sent
             /\ last' = ScanResult(run.failed, failRow)
     /\ UNCHANGED <<now, calls, dec, telegram>>

\* A run in which opening or reading the Permission sheet throws, after the
\* employee map was put into the cache and before any row is looked at.
checkForOverdueCheckInsReadFails ==
  /\ cache' = [cache EXCEPT !["gas"] = TRUE]
  /\ last' = ScanResult(TRUE, 0)
  /\ UNCHANGED <<sheets, sent, now, calls, dec, telegram>>

\* The requests the scanner looks at: Permission requests of a full or a half
\* day, filed on the morning of their start date, then approved, edited and
\* checked in by an administrator at any instant.
ScanDayValues == {"1", "0.5"}
ScanLeaveDetails ==
  [employeeId : Employees, employeeName : {"N1"},
   leaveType : {PERMISSION_SHEET_NAME}, startDate : StartDates, endDate : StartDates,
   numberOfDays : ScanDayValues, reason : {"r1"}, selfieImageData : SelfieInputs]
StoredIds ==
  {sheets[PERMISSION_SHEET_NAME][i][REQUEST_ID_COL] :
     i \in 1..Len(sheets[PERMISSION_SHEET_NAME])}
ScanUpdateDetails ==
  [requestId : StoredIds, employeeId : Employees, employeeName : {"N1"},
   leaveType : {PERMISSION_SHEET_NAME}, startDate : StartDates, endDate : StartDates,
   numberOfDays : ScanDayValues, reason : {"r1"}, selfieImageData : {"drive://f1"}]

ScanTick ==
  /\ now < ScanMaxTime
  /\ now' = now + 1
  /\ last' = NoResult
  /\ UNCHANGED <<sheets, cache, calls, dec, sent, telegram>>
ScanSubmit ==
  /\ now < CHECKIN_1130
  /\ Called /\ \E d \in ScanLeaveDetails : submitLeaveRequest(d, "f1")
ScanDecide == Called /\ \E id \in StoredIds : updateRequestStatus(id, "Approved", "Boss", "")
ScanNodeDecide ==
  Called /\ \E id \in StoredIds : nodeUpdateRequestStatus(id, "Approved", "Boss", "")
ScanResubmit == Called /\ \E d \in ScanUpdateDetails : updateLeaveRequest(d, "f1")
ScanAdminCheckIn == Called /\ \E id \in StoredIds : adminSubmitCheckIn(id, "Boss")
\* A run in which no store call fails, and a run in which the mark write of
\* one row fails.
ScanCompleted == checkForOverdueCheckIns(0)
ScanFailing == \E failRow \in 1..MaxRows : checkForOverdueCheckIns(failRow)

\* Scanner runs that all complete.
NextScanCompleted ==
  \/ ScanTick
  \/ ScanSubmit
  \/ ScanDecide
  \/ ScanNodeDecide
  \/ ScanResubmit
  \/ ScanAdminCheckIn
  \/ ScanCompleted

SpecScanCompleted == Init /\ [][NextScanCompleted]_vars

\* Scanner runs over a ledger that holds requests of several categories, in
\* any status, checked in or not.
SheetsSubmit == now < CHECKIN_1130 /\ Submit
SheetsDecide ==
  Called /\ \E id \in RequestIds, d \in NodeDecisions :
    updateRequestStatus(id, d[1], "Boss", d[2])

NextScanSheets ==
  \/ ScanTick
  \/ SheetsSubmit
  \/ SheetsDecide
  \/ AdminCheckIn
  \/ ScanCompleted

SpecScanSheets == Init /\ [][NextScanSheets]_vars

\* Scanner runs of which any may fail at a mark write.
NextScan ==
  \/ NextScanCompleted
  \/ ScanFailing

SpecScan == Init /\ [][NextScan]_vars

\* Scanner runs of which any may fail at the read of the sheet or at a mark
\* write, over full-day Permission requests that are filed and approved.
HealthSubmit ==
  /\ now < CHECKIN_1130
  /\ Called
  /\ submitLeaveRequest(
       [employeeId |-> "E1", employeeName |-> "N1",
        leaveType |-> PERMISSION_SHEET_NAME, startDate |-> "D1", endDate |-> "D1",
        numberOfDays |-> "1", reason |-> "r1", selfieImageData |-> "data:image/selfie"],
       "f1")

NextScanHealth ==
  \/ ScanTick
  \/ HealthSubmit
  \/ ScanDecide
  \/ ScanCompleted
  \/ ScanFailing
  \/ checkForOverdueCheckInsReadFails

SpecScanHealth == Init /\ [][NextScanHealth]_vars

\* ------------------------------------------------- the scan, step by step
\* checkForOverdueCheckIns with its store calls as steps: getValues reads the
\* rows once, the loop then looks at the rows it read and writes the mark of
\* one row at a time.  No lock is taken, so the handlers run between its
\* steps.  The run is kept in dec[1]: the rows read, the clock read and the
\* loop index.
ScanRead ==
  /\ dec[1].pc = "idle"
  /\ Len(sheets[PERMISSION_SHEET_NAME]) > 0
  /\ cache' = [cache EXCEPT !["gas"] = TRUE]
  /\ dec' = [dec EXCEPT ![1] = [pc |-> "scanning",
                                 values |-> sheets[PERMISSION_SHEET_NAME],
                                 now |-> now, i |-> 1]]
  /\ UNCHANGED <<sheets, now, last, calls, sent, telegram>>

ScanRow ==
  /\ dec[1].pc = "scanning"
  /\ dec[1].i <= Len(dec[1].values)
  /\ LET i == dec[1].i
         tier == newNotificationStatus(dec[1].values[i], dec[1].now)
     IN /\ sent' = IF tier = "" THEN sent ELSE Notify(sent, <<i, tier>>)
        /\ sheets' = IF tier = "" THEN sheets
                      ELSE SetValue(sheets, PERMISSION_SHEET_NAME, i,
                                    NOTIFICATION_SENT_COL, tier)
        /\ dec' = [dec EXCEPT ![1].i = i + 1]
  /\ UNCHANGED <<now, cache, last, calls, telegram>>

ScanEnd ==
  /\ dec[1].pc = "scanning"
  /\ dec[1].i > Len(dec[1].values)
  /\ dec' = [dec EXCEPT ![1] = Idle]
  /\ last' = ScanResult(FALSE, 0)
  /\ UNCHANGED <<sheets, now, cache, calls, sent, telegram>>

NextScanSteps ==
  \/ ScanTick
  \/ HealthSubmit
  \/ ScanDecide
  \/ CheckIn
  \/ ScanRead
  \/ ScanRow
  \/ ScanEnd

SpecScanSteps == Init /\ [][NextScanSteps]_vars

\* ------------------------------------------------ scans that keep running
\* One full-day Permission request for day D1 that is approved, resubmitted
\* for day D2 and approved again, over the two days.  The time-driven
\* trigger keeps starting the scanner and time keeps passing.
TwoDaysMaxTime == 14

TwoDaysTick ==
  /\ now < TwoDaysMaxTime
  /\ now' = now + 1
  /\ last' = NoResult
  /\ UNCHANGED <<sheets, cache, calls, dec, sent, telegram>>

TwoDaysResubmit ==
  /\ Called
  /\ \E id \in StoredIds :
       updateLeaveRequest(
         [requestId |-> id, employeeId |-> "E1", employeeName |-> "N1",
          leaveType |-> PERMISSION_SHEET_NAME, startDate |-> "D2", endDate |-> "D2",
          numberOfDays |-> "1", reason |-> "r1", selfieImageData |-> "drive://f1"],
         "f1")

NextTwoDays ==
  \/ TwoDaysTick
  \/ HealthSubmit
  \/ ScanDecide
  \/ TwoDaysResubmit
  \/ ScanCompleted

SpecTwoDays ==
  /\ Init
  /\ [][NextTwoDays]_vars
  /\ WF_vars(TwoDaysTick)
  /\ WF_vars(ScanCompleted)

\* ------------------------------------------------- guards and queries
\* Read-only calls the client makes before it submits: they leave the ledger
\* as it is and return an answer, recorded in `last` with the arguments.
Asked == UNCHANGED <<calls, dec, sent, telegram>>

\* String.prototype.trim on the cells and arguments of the model.
Trim(str) ==
  IF str \in {" E1", "E1 "} THEN "E1"
  ELSE IF str = "E2 " THEN "E2"
  ELSE IF str = "No " THEN "No"
  ELSE str

\* new Date(value).setHours(0, 0, 0, 0): the midnight of the day of a date.
Midnight(date) == IF date = "D1 09:00" THEN "D1" ELSE date

\* As SameEmployee, but the stored cell is compared as it is.
SameEmployeeUntrimmed(cell, employeeId) == cell = employeeId

\* existingEmployeeId === employeeId, the cell trimmed, the argument as passed.
SameEmployee(cell, employeeId) == Trim(cell) = employeeId

\* currentRequestId && existingRequestId === currentRequestId
IsCurrentRequest(existingRequestId, currentRequestId) ==
  currentRequestId # "" /\ existingRequestId = currentRequestId

MSG_DUPLICATE == "already requested for this day"

\* The scan of the sheet named leaveType; a sheet that does not exist, or
\* holds no row, has no duplicate.
isDuplicate(sh, details) ==
  /\ details.leaveType \in DOMAIN sh
  /\ \E i \in 1..Len(sh[details.leaveType]) :
       LET row == sh[details.leaveType][i]
       IN /\ SameEmployee(row[EMPLOYEE_ID_COL], details.employeeId)
          /\ Midnight(row[START_DATE_COL]) = Midnight(details.startDate)
          /\ ~IsCurrentRequest(row[REQUEST_ID_COL], details.requestId)

checkForDuplicateRequests(details) ==
  /\ last' = ResultOn("checkForDuplicateRequests", details.requestId, "success",
                      IF isDuplicate(sheets, details) THEN MSG_DUPLICATE ELSE "",
                      "none", <<details>>, "")
  /\ UNCHANGED <<sheets, now, cache>>

\* The employee data sheet: columns E (employee id) and F (work status) of
\* its rows.  E3 has no work status, E4 has no row.
EmployeeData == << <<"E1", "Yes">>, <<"E2 ", "No ">>, <<"E3", "">> >>
MSG_SHEET_NOT_FOUND == "Employee data sheet not found."
MSG_WORK_STATUS == "Your work status does not permit this type of leave."

\* sheetFound: whether getSheetByName(EMPLOYEE_SHEET_NAME) returned a sheet.
checkEmployeeWorkStatus(employeeId, sheetFound) ==
  LET blocked == \E r \in 1..Len(EmployeeData) :
                   /\ Trim(EmployeeData[r][1]) = employeeId
                   /\ Trim(EmployeeData[r][2]) = "No"
      message == IF ~sheetFound THEN MSG_SHEET_NOT_FOUND
                 ELSE IF blocked THEN MSG_WORK_STATUS ELSE ""
  IN /\ last' = ResultOn("checkEmployeeWorkStatus", "",
                         IF message = "" THEN "allowed" ELSE "not allowed",
                         message, "none", <<employeeId, sheetFound>>, "")
     /\ UNCHANGED <<sheets, now, cache>>

\* The ledger the guards look at: requests of two employees, one stored with
\* a padded id, for two days, in two categories, Pending or decided.
GuardLeaveDetails ==
  [employeeId : {" E1", "E2"}, employeeName : {"N1"},
   leaveType : SubmitTypes, startDate : {"D1", "D2"}, endDate : {"D2"},
   numberOfDays : DayValues, reason : {"r1"}, selfieImageData : {""}]
\* The questions asked: E1, as the login returns the id, asks about a Leave,
\* or a leave of a category that has no sheet, on the day D1, for a new
\* request or for one being edited.
DuplicateQueries ==
  [employeeId : {"E1"}, leaveType : {LEAVE_SHEET_NAME, "Sick"},
   startDate : {"D1 09:00"}, requestId : {""} \cup RequestIds]
DirectoryIds == {"E1", "E2", "E3", "E4"}

GuardSubmit == Called /\ \E d \in GuardLeaveDetails : submitLeaveRequest(d, "")
GuardDecide ==
  Called /\ \E id \in RequestIds : updateRequestStatus(id, "Approved", "Boss", "")
CheckDuplicate == Asked /\ \E d \in DuplicateQueries : checkForDuplicateRequests(d)
CheckWorkStatus ==
  Asked /\ \E e \in DirectoryIds, sheetFound \in BOOLEAN :
    checkEmployeeWorkStatus(e, sheetFound)

NextGuards ==
  \/ Tick
  \/ GuardSubmit
  \/ GuardDecide
  \/ CheckDuplicate

SpecGuards == Init /\ [][NextGuards]_vars

\* ------------------------------------------------------- monthly statistics
\* requestDate.getMonth() === currentMonth && requestDate.getFullYear() ===
\* currentYear: D1 and D2 are days of the running month, P1 is a day of the
\* month before it and Y1 a day of the same month a year earlier.
InCurrentMonth(date) == date \notin {"P1", "Y1"}

NoStats == [totalRequests |-> 0, totalDays |-> 0, permissionCount |-> 0, leaveCount |-> 0]

\* The loop over the rows of one sheet.  The Apps Script code reads the
\* category of a counted row from its leave type cell, the Node port takes
\* the name of the sheet the row is in.
RECURSIVE StatsRows(_, _, _, _, _, _)
StatsRows(impl, sheetName, rows, i, employeeId, stats) ==
  IF i > Len(rows) THEN stats
  ELSE LET row == rows[i]
           counted == /\ SameEmployee(row[EMPLOYEE_ID_COL], employeeId)
                      /\ InCurrentMonth(row[START_DATE_COL])
                      /\ row[STATUS_COL] = "Approved"
           leaveType == IF impl = "gas" THEN row[LEAVE_TYPE_COL] ELSE sheetName
           added ==
             [totalRequests |-> stats.totalRequests + 1,
              totalDays |-> stats.totalDays + getNumericDayValue(row[DAYS_COL]),
              permissionCount |-> stats.permissionCount
                                    + (IF leaveType = PERMISSION_SHEET_NAME THEN 1 ELSE 0),
              leaveCount |-> stats.leaveCount
                               + (IF leaveType = LEAVE_SHEET_NAME THEN 1 ELSE 0)]
       IN StatsRows(impl, sheetName, rows, i + 1, employeeId,
                    IF counted THEN added ELSE stats)

\* for (const sheetName of ALL_LEAVE_SHEETS)
RECURSIVE StatsSheets(_, _, _, _, _)
StatsSheets(impl, sh, k, employeeId, stats) ==
  IF k > Len(ALL_LEAVE_SHEETS) THEN stats
  ELSE StatsSheets(impl, sh, k + 1, employeeId,
                   StatsRows(impl, ALL_LEAVE_SHEETS[k], sh[ALL_LEAVE_SHEETS[k]], 1,
                             employeeId, stats))

getMonthlyLeaveStats(impl, employeeId) ==
  /\ last' = ResultOn("getMonthlyLeaveStats", "", "success", "", "none",
                      <<impl, employeeId, StatsSheets(impl, sheets, 1, employeeId, NoStats)>>,
                      "")
  /\ UNCHANGED <<sheets, now, cache>>

\* getNumericDayValue applied to what a days cell or a form field may hold.
DurationInputs ==
  DOMAIN dayValueMap \cup {"0.5", "1", "2", "0", "", "abc", "2 days"}
parseDuration(dayValue) ==
  /\ last' = ResultOn("getNumericDayValue", "", "success", "", "none",
                      <<dayValue, getNumericDayValue(dayValue)>>, "")
  /\ UNCHANGED <<sheets, now, cache>>

\* The ledger the statistics are computed on: requests of a full or a half
\* day, of this month or the month before, of two employees, approved, and
\* edited into another category.
StatsLeaveDetails ==
  [employeeId : {" E1", "E2"}, employeeName : {"N1"},
   leaveType : SubmitTypes, startDate : {"D1", "P1"}, endDate : {"D2"},
   numberOfDays : {"1", "0.5"}, reason : {"r1"}, selfieImageData : {""}]
StatsUpdateDetails ==
  [requestId : RequestIds, employeeId : {" E1"}, employeeName : {"N1"},
   leaveType : SubmitTypes, startDate : {"D1"}, endDate : {"D2"},
   numberOfDays : {"1"}, reason : {"r1"}, selfieImageData : {""}]

StatsSubmit == Called /\ \E d \in StatsLeaveDetails : submitLeaveRequest(d, "")
StatsResubmit == Called /\ \E d \in StatsUpdateDetails : updateLeaveRequest(d, "")
MonthlyStats == Asked /\ \E impl \in Impls : getMonthlyLeaveStats(impl, "E1")
ParseDuration == Asked /\ \E dayValue \in DurationInputs : parseDuration(dayValue)

NextStats ==
  \/ Tick
  \/ StatsSubmit
  \/ StatsResubmit
  \/ GuardDecide
  \/ MonthlyStats
  \/ ParseDuration
  \/ CheckWorkStatus

SpecStats == Init /\ [][NextStats]_vars

\* ------------------------------------------------- notification delivery
\* What UrlFetchApp.fetch (axios.post in the Node port) does with the message
\* of a handler: Telegram accepts it, answers with an error code, or the
\* call throws.
SendOutcomes == {"accepted", "refused", "threw"}

\* As sendTelegramNotification, but an exception of the call escapes.
sendTelegramNotificationUncaught(notif, outcome) ==
  IF notif = "none" THEN "none"
  ELSE IF outcome = "accepted" THEN "delivered"
  ELSE IF outcome = "refused" THEN "logged"
  ELSE "thrown"

\* How the send of a handler's notification ends: the handler that sends
\* nothing leaves "none"; an error code (muteHttpExceptions) and an exception
\* (the try / catch around the call) are logged inside the function, which
\* returns normally in every case.
sendTelegramNotification(notif, outcome) ==
  IF notif = "none" THEN "none"
  ELSE IF outcome = "accepted" THEN "delivered"
  ELSE "logged"

\* One more handler call that ends with its send.
Sending ==
  /\ calls < MaxCalls
  /\ calls' = calls + 1
  /\ \E outcome \in SendOutcomes :
       telegram' = sendTelegramNotification(last'.notif, outcome)
  /\ UNCHANGED <<dec, sent>>

NotifySubmit ==
  /\ \E d \in LeaveDetails : submitLeaveRequest(d, "f1")
  /\ Sending
NotifyDecide ==
  /\ \E id \in RequestIds, d \in NodeDecisions : updateRequestStatus(id, d[1], "Boss", d[2])
  /\ Sending
NotifyResubmit ==
  /\ \E d \in UpdateDetails : updateLeaveRequest(d, "f1")
  /\ Sending
NotifyCheckIn ==
  /\ \E c \in CheckInData : submitCheckIn(c, "f1")
  /\ Sending

NextNotify ==
  \/ Tick
  \/ NotifySubmit
  \/ NotifyDecide
  \/ NotifyResubmit
  \/ NotifyCheckIn

SpecNotify == Init /\ [][NextNotify]_vars

\* C1: of two decide calls on the same request with different outcomes, exactly
\* one returns success, the other returns "already processed", and the stored
\* status is the winner's outcome.
C1_ExactlyOneDecideSucceeds ==
  \A c1, c2 \in Callers :
    ( /\ c1 # c2
      /\ dec[c1].pc = "done" /\ dec[c2].pc = "done"
      /\ dec[c1].found # NotFound /\ dec[c1].found = dec[c2].found
      /\ dec[c1].requestId = dec[c2].requestId
      /\ dec[c1].newStatus # dec[c2].newStatus )
    => \E w, l \in {c1, c2} :
         /\ w # l
         /\ dec[w].result = MSG_UPDATED
         /\ dec[l].result = MSG_PROCESSED
         /\ GetValue(sheets, dec[w].found.sheet, dec[w].found.row, STATUS_COL)
              = dec[w].newStatus


TypeOK ==
  /\ now \in Times
  /\ \A s \in SheetNames : \A i \in 1..Len(sheets[s]) : Len(sheets[s][i]) = 21
\* ------------------------------------------------------------ properties
\* A step that removes no row keeps every row at its position, so the row at
\* (sheet, i) before the step and the row at (sheet, i) after it are the same
\* request.
KeepsRows == \A s \in SheetNames : Len(sheets'[s]) >= Len(sheets[s])
Positions == {p \in SheetNames \X (1..MaxRows + 1) : p[2] <= Len(sheets[p[1]])}
Cell(p, col) == sheets[p[1]][p[2]][col]
CellAfter(p, col) == sheets'[p[1]][p[2]][col]
Changed(p, col) == CellAfter(p, col) # Cell(p, col)

\* The row the call of this step located, in the state before the step.
Located == findRequestRow(sheets, last'.requestId)
LocatedPos == <<Located.sheet, Located.row>>
Succeeded(op) == last'.op = op /\ last'.status = "success"

C3_StatusIsEnum ==
  \A s \in SheetNames : \A i \in 1..Len(sheets[s]) :
    sheets[s][i][STATUS_COL] \in {"Pending", "Approved", "Rejected"}

\* C4 as stated: approver and approvalTimestamp are written once; once they are
\* set no later operation writes them again.
C4_ApprovalWrittenOnce ==
  [][KeepsRows =>
       \A p \in Positions :
         Cell(p, APPROVER_COL) # "" =>
           ~Changed(p, APPROVER_COL) /\ ~Changed(p, APPROVAL_TIMESTAMP_COL)]_vars

\* C4 amended: approver and approvalTimestamp are written only by a decide that
\* found the request Pending, and are cleared only by a resubmit; no other
\* operation, and no decide on a request that is not Pending, writes them.
C4_ApprovalWrittenOnlyAtDecide ==
  [][KeepsRows =>
       \A p \in Positions :
         (Changed(p, APPROVER_COL) \/ Changed(p, APPROVAL_TIMESTAMP_COL)) =>
           \/ /\ Succeeded("decide")
              /\ p = LocatedPos
              /\ Cell(p, STATUS_COL) = "Pending"
           \/ /\ Succeeded("resubmit")
              /\ p = LocatedPos
              /\ CellAfter(p, APPROVER_COL) = ""
              /\ CellAfter(p, APPROVAL_TIMESTAMP_COL) = ""]_vars

\* A resubmit has cleared the approver of a decided request.
C4_Witness ==
  /\ last.op = "resubmit" /\ last.status = "success"
  /\ last.before \in {"Approved", "Rejected"}
  /\ \E s \in SheetNames : \E i \in 1..Len(sheets[s]) :
       /\ sheets[s][i][REQUEST_ID_COL] = last.requestId
       /\ sheets[s][i][APPROVER_COL] = ""
       /\ sheets[s][i][APPROVAL_TIMESTAMP_COL] = ""

\* C5: checkInTimestamp is set at most once; the one the first check-in wrote
\* is never overwritten.
C5_CheckInTimestampKept ==
  [][KeepsRows =>
       \A p \in Positions :
         Cell(p, CHECKIN_TIMESTAMP_COL) # "" => ~Changed(p, CHECKIN_TIMESTAMP_COL)]_vars

\* C6: no request carries both an employee check-in photo and an admin
\* check-in annotation.
AdminAnnotations == {"Checked in by: " \o a : a \in Actors \ {""}}
C6_CheckInWritersExclusive ==
  \A s \in SheetNames : \A i \in 1..Len(sheets[s]) :
    ~ ( /\ sheets[s][i][CHECKIN_PHOTO_COL] # ""
        /\ sheets[s][i][ADMIN_CHECKIN_NOTE_COL] \in AdminAnnotations )

\* C7: a decide on a request whose stored status is not Pending returns the
\* "already processed" error, changes no cell, leaves both caches as they are
\* and sends no notification.
C7_DecideOnProcessedIsRefused ==
  [][(last'.op = "decide" /\ Located # NotFound
        /\ Cell(LocatedPos, STATUS_COL) # "Pending")
       => /\ last'.status = "error"
          /\ last'.message = MSG_PROCESSED
          /\ last'.notif = "none"
          /\ sheets' = sheets
          /\ cache' = cache]_vars

\* A decide was refused on a decided request while the employee map was cached.
C7_Witness ==
  /\ last.op = "decide" /\ last.message = MSG_PROCESSED
  /\ \E impl \in Impls : cache[impl]
  /\ \E s \in SheetNames : \E i \in 1..Len(sheets[s]) :
       /\ sheets[s][i][REQUEST_ID_COL] = last.requestId
       /\ sheets[s][i][STATUS_COL] \in {"Approved", "Rejected"}

\* C8: decide, resubmit, employee check-in and admin check-in on a request id
\* that no sheet holds return the not-found error and leave every sheet as it
\* is.  (The employee check-in tests its selfie and location arguments before
\* it looks the request up; a call it refuses there reports that instead.)
NotFoundMessages ==
  {MSG_NOT_FOUND_UPDATE, MSG_NOT_FOUND_NODE, MSG_NOT_FOUND_RESUBMIT,
   MSG_NOT_FOUND_CHECKIN, MSG_NOT_FOUND_ADMIN_CHECKIN}
RefusedArguments == {MSG_INVALID_CHECKIN, MSG_LOCATION_MISSING, MSG_TOO_FAR}
HeldIds == {Cell(p, REQUEST_ID_COL) : p \in Positions}
C9_DecideStoresDecision ==
  [][Succeeded("decide") =>
       /\ CellAfter(LocatedPos, STATUS_COL) = last'.args[1]
       /\ last'.args[2] # "" => CellAfter(LocatedPos, APPROVER_COL) = last'.args[2]
       /\ CellAfter(LocatedPos, APPROVAL_TIMESTAMP_COL) = TimeCell(now)
       /\ last'.args[1] = "Rejected" =>
            CellAfter(LocatedPos, ADMIN_CHECKIN_NOTE_COL) = last'.args[3]]_vars

\* C10: a resubmit on a stored request, whatever its status was, leaves it
\* Pending with approver, approvalTimestamp and adminCheckinNote empty.
C10_ResubmitResets ==
  [][Succeeded("resubmit") =>
       /\ CellAfter(LocatedPos, STATUS_COL) = "Pending"
       /\ CellAfter(LocatedPos, APPROVER_COL) = ""
       /\ CellAfter(LocatedPos, APPROVAL_TIMESTAMP_COL) = ""
       /\ CellAfter(LocatedPos, ADMIN_CHECKIN_NOTE_COL) = ""]_vars

\* A Rejected request, its reason in the admin note, was resubmitted.
C10_Witness ==
  /\ last.op = "resubmit" /\ last.status = "success" /\ last.before = "Rejected"
  /\ \E s \in SheetNames : \E i \in 1..Len(sheets[s]) :
       /\ sheets[s][i][REQUEST_ID_COL] = last.requestId
       /\ sheets[s][i][STATUS_COL] = "Pending"
       /\ sheets[s][i][ADMIN_CHECKIN_NOTE_COL] = ""
\* C11: a resubmit repeated right away with the identical payload leaves the
\* ledger as the first one left it.
C11_ResubmitTwiceIsResubmitOnce ==
  [][(/\ last.op = "resubmit" /\ last.status = "success"
      /\ Succeeded("resubmit")
      /\ last'.requestId = last.requestId
      /\ last'.args = last.args)
       => sheets' = sheets]_vars

\* C12: in the sequence submit, decide(Approved), decide, checkIn, checkIn on a
\* Permission request, the check-in of the already checked-in Approved request
\* is refused and changes nothing.
C12_SecondCheckInRefused ==
  [][(/\ last'.op = "checkin"
      /\ Located # NotFound
      /\ Located.sheet = PERMISSION_SHEET_NAME
      /\ Cell(LocatedPos, STATUS_COL) = "Approved"
      /\ Cell(LocatedPos, APPROVER_COL) # ""
      /\ Cell(LocatedPos, CHECKIN_TIMESTAMP_COL) # "")
       => /\ last'.status = "error"
          /\ sheets' = sheets]_vars
\* --------------------------------------------- properties of the scanner
\* No scanner specification deletes a row, so a Permission row keeps its
\* position.
PermissionRows == 1..Len(sheets[PERMISSION_SHEET_NAME])
PRow(i) == sheets[PERMISSION_SHEET_NAME][i]
Mark(i) == sheets[PERMISSION_SHEET_NAME][i][NOTIFICATION_SENT_COL]
MarkAfter(i) == sheets'[PERMISSION_SHEET_NAME][i][NOTIFICATION_SENT_COL]
NothingSentFor(i) == \A tier \in Tiers : CopiesIn(<<i, tier>>, sent') = CopiesIn(<<i, tier>>, sent)
SentOnly(i, tier) ==
  /\ CopiesIn(<<i, tier>>, sent') = CopiesIn(<<i, tier>>, sent) + 1
  /\ \A other \in Tiers \ {tier} : CopiesIn(<<i, other>>, sent') = CopiesIn(<<i, other>>, sent)
AwaitingCheckIn(i) ==
  PRow(i)[STATUS_COL] = "Approved" /\ PRow(i)[CHECKIN_TIMESTAMP_COL] = ""
TierRank(mark) ==
  IF mark = "" THEN 0
  ELSE IF mark \in {"OverdueHalfDay_1", "OverdueTime"} THEN 1 ELSE 2

\* C13: the escalation mark of a request only advances: no scan and no other
\* operation moves it back to an earlier tier or to empty.
C13_MarkNeverRegresses ==
  [][\A i \in PermissionRows :
       MarkAfter(i) # Mark(i) =>
         /\ MarkAfter(i) \in Tiers
         /\ TierRank(MarkAfter(i)) >= TierRank(Mark(i))
         /\ Mark(i) \notin {"OverdueDay"}
         /\ Mark(i) = "OverdueHalfDay_2" => MarkAfter(i) # "OverdueHalfDay_1"]_vars

\* A half-day request went through both of its tiers.
C13_Witness ==
  \E i \in PermissionRows :
    /\ Mark(i) = "OverdueHalfDay_2"
    /\ CopiesIn(<<i, "OverdueHalfDay_1">>, sent) >= 1
    /\ CopiesIn(<<i, "OverdueHalfDay_2">>, sent) >= 1

\* C14: once the mark of a request is OverdueDay or OverdueHalfDay_2, no later
\* step sends an escalation for it or changes its mark.
C14_FinalTierIsFinal ==
  [][\A i \in PermissionRows :
       Mark(i) \in {"OverdueDay", "OverdueHalfDay_2"} =>
         MarkAfter(i) = Mark(i) /\ NothingSentFor(i)]_vars

\* C15: for a full-day request that is Approved and not checked in, a scan
\* between 18:00 and 05:00 of the next day sends OverdueTime once when the
\* request is unmarked and marks it; a scan up to 05:00 of the next day sends
\* nothing once it is marked; the first scan after that sends OverdueDay once.
C15_FullDayEscalation ==
  [][last'.op = "scan" =>
       \A i \in PermissionRows :
         (AwaitingCheckIn(i) /\ PRow(i)[DAYS_COL] = "1") =>
           /\ (Mark(i) = "" /\ now > EVENING_1800 /\ now < NEXT_DAY_0500) =>
                MarkAfter(i) = "OverdueTime" /\ SentOnly(i, "OverdueTime")
           /\ (Mark(i) = "OverdueTime" /\ now <= NEXT_DAY_0500) =>
                MarkAfter(i) = "OverdueTime" /\ NothingSentFor(i)
           /\ (Mark(i) = "OverdueTime" /\ now > NEXT_DAY_0500) =>
                MarkAfter(i) = "OverdueDay" /\ SentOnly(i, "OverdueDay")]_vars

\* A full-day request was notified once at each tier, the second time by the
\* scan that just ran.
C15_Witness ==
  /\ last.op = "scan"
  /\ \E i \in PermissionRows :
       /\ PRow(i)[DAYS_COL] = "1"
       /\ Mark(i) = "OverdueDay"
       /\ CopiesIn(<<i, "OverdueTime">>, sent) = 1
       /\ CopiesIn(<<i, "OverdueDay">>, sent) = 1

\* C16: over scanner runs that do not overlap, each tier is notified at most
\* once per request.
C16_EachTierAtMostOnce ==
  \A k \in DOMAIN sent : sent[k] <= 1

\* A scan ran after both half-day tiers had been notified for a request.
C16_Witness ==
  /\ last.op = "scan"
  /\ now > CHECKIN_1430 + 1
  /\ \E i \in PermissionRows :
       CopiesIn(<<i, "OverdueHalfDay_1">>, sent) = 1 /\ CopiesIn(<<i, "OverdueHalfDay_2">>, sent) = 1
\* C17: a tier whose notification was sent for a request is never sent for it
\* again, also when the run that sent it was cut off and the scanner started
\* again on the next tick.
C17_NoTierSentAgain ==
  [][\A k \in DOMAIN sent : sent[k] >= 1 => sent'[k] = sent[k]]_vars

\* C18: when the mark write of one row fails during a scan, every later row
\* that is due is still escalated by the same run.
C18_ScanContinuesPastRowError ==
  [][(last'.op = "scan" /\ last'.status = "error") =>
       \A j \in PermissionRows :
         (j > last'.args[1] /\ newNotificationStatus(PRow(j), now) # "") =>
           /\ MarkAfter(j) = newNotificationStatus(PRow(j), now)
           /\ SentOnly(j, newNotificationStatus(PRow(j), now))]_vars

\* C19: for an Approved, not checked-in, unmarked full-day request whose first
\* scan runs after 05:00 of the next day, that scan sends OverdueTime and not
\* OverdueDay.
C19_EveningRuleFirst ==
  [][last'.op = "scan" =>
       \A i \in PermissionRows :
         (/\ AwaitingCheckIn(i) /\ PRow(i)[DAYS_COL] = "1"
          /\ Mark(i) = "" /\ now > NEXT_DAY_0500) =>
           MarkAfter(i) = "OverdueTime" /\ SentOnly(i, "OverdueTime")]_vars

\* C20: for a half-day request whose approval timestamp is not earlier than
\* 08:31 of the start date, or is missing, no scan sends an escalation or
\* writes a mark.
EarlyApprovals == {TimeCell(t) : t \in 0..MORNING_0831 - 1}
C20_LateHalfDayNeverEscalates ==
  [][last'.op = "scan" =>
       \A i \in PermissionRows :
         (/\ PRow(i)[DAYS_COL] = "0.5"
          /\ PRow(i)[APPROVAL_TIMESTAMP_COL] \notin EarlyApprovals) =>
           MarkAfter(i) = Mark(i) /\ NothingSentFor(i)]_vars

\* A scan after 14:30 left alone a half-day request approved at 08:31 sharp.
C20_Witness ==
  /\ last.op = "scan"
  /\ now > CHECKIN_1430
  /\ \E i \in PermissionRows :
       /\ PRow(i)[DAYS_COL] = "0.5"
       /\ AwaitingCheckIn(i)
       /\ PRow(i)[APPROVAL_TIMESTAMP_COL] = TimeCell(MORNING_0831)
       /\ Mark(i) = ""
       /\ \A tier \in Tiers : CopiesIn(<<i, tier>>, sent) = 0
\* C21: a scan sends escalations and writes marks only for rows of the
\* Permission sheet that are Approved and not checked in; every other row of
\* every sheet keeps its mark and has nothing sent for it.
C21_ScanOnlyApprovedPermission ==
  [][last'.op = "scan" =>
       /\ \A s \in SheetNames \ {PERMISSION_SHEET_NAME} : sheets'[s] = sheets[s]
       /\ \A i \in PermissionRows :
            ~AwaitingCheckIn(i) => PRow(i) = sheets'[PERMISSION_SHEET_NAME][i]
                                   /\ NothingSentFor(i)
       /\ \A k \in DOMAIN sent' : k[1] \in PermissionRows]_vars

\* A scan after 05:00 of the next day passed over an Approved Leave request
\* and a Permission request that was checked in or not Approved.
C21_Witness ==
  /\ last.op = "scan"
  /\ now > NEXT_DAY_0500
  /\ \E j \in 1..Len(sheets[LEAVE_SHEET_NAME]) :
       /\ sheets[LEAVE_SHEET_NAME][j][STATUS_COL] = "Approved"
       /\ sheets[LEAVE_SHEET_NAME][j][CHECKIN_TIMESTAMP_COL] = ""
       /\ sheets[LEAVE_SHEET_NAME][j][NOTIFICATION_SENT_COL] = ""
  /\ \E i \in PermissionRows :
       /\ ~AwaitingCheckIn(i)
       /\ Mark(i) = ""
       /\ \A tier \in Tiers : CopiesIn(<<i, tier>>, sent) = 0

C23_NoTwoRequestsOfOneDay ==
  \A p, q \in Positions :
    (/\ p[1] = q[1]
     /\ Trim(Cell(p, EMPLOYEE_ID_COL)) = Trim(Cell(q, EMPLOYEE_ID_COL))
     /\ Cell(p, START_DATE_COL) = Cell(q, START_DATE_COL))
    => Cell(p, REQUEST_ID_COL) = Cell(q, REQUEST_ID_COL)

\* C24: the ledger never holds a request appended by submitLeaveRequest for an
\* employee whose work status in the employee data sheet is "No".
C24_NoRowOfBlockedEmployee ==
  \A p \in Positions :
    ~ \E r \in 1..Len(EmployeeData) :
        /\ Trim(EmployeeData[r][1]) = Trim(Cell(p, EMPLOYEE_ID_COL))
        /\ Trim(EmployeeData[r][2]) = "No"

\* C26: no two stored requests, in one sheet or in two, have the same request
\* id, also when they were created at the same instant.
C26_RequestIdsUnique ==
  \A p, q \in Positions :
    p # q => Cell(p, REQUEST_ID_COL) # Cell(q, REQUEST_ID_COL)

\* C25: the work-status check answers "not allowed" exactly when the employee
\* data sheet records the work status "No" for the employee (E2); for an
\* employee with another status, with no status or with no row, and when the
\* employee data sheet does not exist, it answers "allowed".
C25_BlockedExactlyOnNo ==
  [][last'.op = "checkEmployeeWorkStatus" =>
       ((last'.status = "not allowed") <=> (last'.args[1] = "E2"))]_vars

\* C27: the monthly statistics of E1 count exactly the rows, in any sheet, of
\* E1 (id trimmed) that are Approved and start in the running month:
\* totalRequests is their number, totalDays the sum of their durations,
\* permissionCount and leaveCount the numbers of those of category Permission
\* and Leave.
StatsCounted ==
  {p \in Positions :
     /\ Cell(p, EMPLOYEE_ID_COL) \in {"E1", " E1", "E1 "}
     /\ Cell(p, STATUS_COL) = "Approved"
     /\ Cell(p, START_DATE_COL) \in {"D1", "D2"}}
RECURSIVE HalfDaysOf(_)
HalfDaysOf(ps) ==
  IF ps = {} THEN 0
  ELSE LET p == CHOOSE x \in ps : TRUE
       IN (IF Cell(p, DAYS_COL) = "0.5" THEN 1 ELSE 2) + HalfDaysOf(ps \ {p})
C27_StatsCountApprovedOfMonth ==
  [][last'.op = "getMonthlyLeaveStats" =>
       LET stats == last'.args[3]
       IN /\ stats.totalRequests = Cardinality(StatsCounted)
          /\ stats.totalDays = HalfDaysOf(StatsCounted)
          /\ stats.permissionCount =
               Cardinality({p \in StatsCounted :
                              Cell(p, LEAVE_TYPE_COL) = PERMISSION_SHEET_NAME})
          /\ stats.leaveCount =
               Cardinality({p \in StatsCounted :
                              Cell(p, LEAVE_TYPE_COL) = LEAVE_SHEET_NAME})]_vars

\* C29: getNumericDayValue returns a half day for each of the three day-part
\* names, the number for a numeric input, and 0 for an input that is neither
\* a number nor one of the names.
C29_DurationOfEveryInput ==
  [][last'.op = "getNumericDayValue" =>
       LET dayValue == last'.args[1]
           value == last'.args[2]
       IN /\ dayValue \in {"muoy proek", "muoy rosiel", "pel yub"} => value = HALF_DAY
          /\ dayValue = "0.5" => value = HALF_DAY
          /\ dayValue = "1" => value = 2 * HALF_DAY
          /\ dayValue = "2" => value = 4 * HALF_DAY
          /\ dayValue \in {"0", "", "abc", "2 days"} => value = 0]_vars

\* C28: when the send of the notification of a submit, decide, resubmit or
\* check-in fails, the failure stays inside the send (it is logged), the
\* handler returns success, and the ledger holds what the handler wrote.
C28_FailedSendKeepsWriteAndSuccess ==
  [][(/\ last'.op \in {"submit", "decide", "resubmit", "checkin"}
      /\ telegram' \notin {"none", "delivered"})
     => /\ telegram' = "logged"
        /\ last'.status = "success"
        /\ last'.op = "submit" =>
             \E s \in SheetNames :
               /\ Len(sheets'[s]) = Len(sheets[s]) + 1
               /\ sheets'[s][Len(sheets'[s])][REQUEST_ID_COL] = last'.requestId
        /\ last'.op = "decide" => CellAfter(LocatedPos, STATUS_COL) = last'.args[1]
        /\ last'.op = "resubmit" => CellAfter(LocatedPos, STATUS_COL) = "Pending"
        /\ last'.op = "checkin" => CellAfter(LocatedPos, CHECKIN_TIMESTAMP_COL) # ""]_vars

C28_Witness ==
  /\ telegram = "logged"
  /\ last.op = "decide"
  /\ last.status = "success"
  /\ \E p \in Positions :
       /\ Cell(p, REQUEST_ID_COL) = last.requestId
       /\ Cell(p, STATUS_COL) = "Rejected"
       /\ last.args[1] = "Rejected"

C31_RowInSheetOfItsCategory ==
  \A p \in Positions : Cell(p, LEAVE_TYPE_COL) = p[1]

\* C32: a request whose check-in timestamp is set is a Permission request in
\* status Approved.
C32_CheckedInIsApprovedPermission ==
  \A p \in Positions :
    Cell(p, CHECKIN_TIMESTAMP_COL) # "" =>
      /\ Cell(p, LEAVE_TYPE_COL) = PERMISSION_SHEET_NAME
      /\ Cell(p, STATUS_COL) = "Approved"

\* C33: a successful decide changes, of all the cells of the ledger, only the
\* status, the approver and the approval timestamp of the decided request,
\* and its rejection reason when the decision is Rejected.
C33_DecideChangesOnlyDecisionCells ==
  [][Succeeded("decide") =>
       \A p \in Positions : \A col \in 1..ADMIN_CHECKIN_NOTE_COL :
         Changed(p, col) =>
           /\ p = LocatedPos
           /\ \/ col \in {STATUS_COL, APPROVER_COL, APPROVAL_TIMESTAMP_COL}
              \/ col = ADMIN_CHECKIN_NOTE_COL /\ last'.args[1] = "Rejected"]_vars

\* C34: the writes of a decide land on the request the call located: while
\* that request is stored (in one row, of the sheet it was located in), a
\* write step of the call changes cells of a row of that request only, also when a deleteLeaveRequest has removed another row
\* since the call located its row.
C34_WritesLandOnLocatedRequest ==
  [][\A c \in Callers :
       (/\ dec[c].pc \in {"checked", "wroteStatus", "wroteApprover", "wroteTimestamp"}
        /\ dec'[c].pc # dec[c].pc
        /\ Cardinality({p \in Positions :
                          Cell(p, REQUEST_ID_COL) = dec[c].requestId}) = 1
        /\ \E p \in Positions : /\ p[1] = dec[c].found.sheet
                                 /\ Cell(p, REQUEST_ID_COL) = dec[c].requestId)
       => \A s \in SheetNames : \A i \in 1..Len(sheets'[s]) :
            (i > Len(sheets[s]) \/ sheets'[s][i] # sheets[s][i])
            => /\ i <= Len(sheets[s])
               /\ sheets[s][i][REQUEST_ID_COL] = dec[c].requestId]_vars

\* C35: once no decide call is between its steps, every stored request has an
\* approver and an approval timestamp exactly when its status is Approved or
\* Rejected, also after a decide and a resubmit of one request have interleaved.
C35_ApproverExactlyWhenDecided ==
  (\A c \in Callers : dec[c].pc \in {"idle", "done"}) =>
    \A p \in Positions :
      IF Cell(p, STATUS_COL) \in {"Approved", "Rejected"}
      THEN Cell(p, APPROVER_COL) # "" /\ Cell(p, APPROVAL_TIMESTAMP_COL) # ""
      ELSE Cell(p, APPROVER_COL) = "" /\ Cell(p, APPROVAL_TIMESTAMP_COL) = ""

\* C36: a decide call that returns an error has changed no stored field: when
\* the only decide call that has run ends with an error, every stored request
\* is still Pending, with no approver and no approval timestamp.
C36_ErrorDecideChangedNothing ==
  [][\A c \in Callers :
       (/\ \A o \in Callers \ {c} : dec[o].pc = "idle"
        /\ dec[c].pc # "done"
        /\ dec'[c].pc = "done"
        /\ dec'[c].result # MSG_UPDATED)
       => \A s \in SheetNames : \A i \in 1..Len(sheets'[s]) :
            /\ sheets'[s][i][STATUS_COL] = "Pending"
            /\ sheets'[s][i][APPROVER_COL] = ""
            /\ sheets'[s][i][APPROVAL_TIMESTAMP_COL] = ""]_vars

\* C37: the scanner sends no notification and writes no mark for a request
\* whose check-in timestamp is stored at that moment, also when the check-in
\* ran after the scan had read the rows.
C37_NoEscalationOnceCheckedIn ==
  [][\A i \in 1..Len(sheets[PERMISSION_SHEET_NAME]) :
       (\/ sheets'[PERMISSION_SHEET_NAME][i][NOTIFICATION_SENT_COL]
             # sheets[PERMISSION_SHEET_NAME][i][NOTIFICATION_SENT_COL]
        \/ \E tier \in Tiers : CopiesIn(<<i, tier>>, sent') > CopiesIn(<<i, tier>>, sent))
       => sheets[PERMISSION_SHEET_NAME][i][CHECKIN_TIMESTAMP_COL] = ""]_vars

\* C38: while scans keep running and time passes, a full-day Permission
\* request that was resubmitted with the start date D2 and approved again is
\* sent one more OverdueDay notification (after 05:00 of the day after D2),
\* unless it is checked in or changed first; also when it was escalated for
\* its earlier start date.
ApprovedForD2(i) ==
  /\ i <= Len(sheets[PERMISSION_SHEET_NAME])
  /\ LET row == sheets[PERMISSION_SHEET_NAME][i]
     IN /\ row[STATUS_COL] = "Approved"
        /\ row[CHECKIN_TIMESTAMP_COL] = ""
        /\ getNumericDayValue(row[DAYS_COL]) # HALF_DAY
        /\ row[START_DATE_COL] = "D2"

JustApprovedForD2(i) ==
  /\ ApprovedForD2(i)
  /\ last.op = "decide"
  /\ last.status = "success"
  /\ last.requestId = sheets[PERMISSION_SHEET_NAME][i][REQUEST_ID_COL]

C38_OverdueDayForCurrentStartDate ==
  \A i \in 1..MaxRows : \A c \in 0..(MaxSent - 1) :
    (JustApprovedForD2(i) /\ CopiesIn(<<i, "OverdueDay">>, sent) = c)
      ~> (~ApprovedForD2(i) \/ CopiesIn(<<i, "OverdueDay">>, sent) > c)

\* C39: on every reachable ledger and for every employee id, the Apps Script
\* getMonthlyLeaveStats and the Node getMonthlyLeaveStats return the same
\* totalRequests, totalDays, permissionCount and leaveCount.
C39_StatsOfBothPortsAgree ==
  \A employeeId \in {"E1", "E2"} :
    StatsSheets("gas", sheets, 1, employeeId, NoStats)
      = StatsSheets("node", sheets, 1, employeeId, NoStats)

====
